---- MODULE Spec2Model ----
(***************************************************************************)
(* Model of the task store of local-task (tdlite): the `tasks` table, the  *)
(* commands add, get, list, todo, search, show, status, done, wip and      *)
(* remove that read and write it, and the visual-width functions that the  *)
(* tables of show and status are laid out with.  Text is a sequence of     *)
(* characters, so that identifier parsing, LIKE matching and widths are    *)
(* computed character by character.                                        *)
(***************************************************************************)
EXTENDS Integers, Sequences, FiniteSets, TLC

VARIABLES tasks, seq, now, last

vars == <<tasks, seq, now, last>>

(* ---------------------------- bounds ----------------------------------- *)

MaxSeq == 2      \* rows ever inserted (cap on the AUTOINCREMENT counter)
MaxClock == 1    \* the clock of SpecClock runs over 0..MaxClock
MaxQueryLen == 2 \* length of the queries of SpecSearch
MaxIdLen == 4    \* length of the id strings of SpecIds
MaxStrLen == 3   \* length of the strings given to truncateString
MaxWidth == 4    \* truncateString is given a maxWidth in 0..MaxWidth

(* ---------------------------- values ----------------------------------- *)

NONE == [t |-> "none"]
NULL == [t |-> "null"]
UNDEF == [t |-> "undef"]
NUM == [t |-> "num"]
Str(s) == [t |-> "str", v |-> s]
Count(n) == [t |-> "count", n |-> n]

sWip == <<"w", "i", "p">>
sDone == <<"d", "o", "n", "e">>
sBad == <<"b", "a", "d">>

Categories == {"c1", "c2"}

(* ------------------- src/utils/validation.ts --------------------------- *)

Digits == {"0", "1", "2", "3", "4", "5", "6", "7", "8", "9"}

DigitVal(ch) ==
  CASE ch = "0" -> 0 [] ch = "1" -> 1 [] ch = "2" -> 2 [] ch = "3" -> 3
    [] ch = "4" -> 4 [] ch = "5" -> 5 [] ch = "6" -> 6 [] ch = "7" -> 7
    [] ch = "8" -> 8 [] ch = "9" -> 9

WhiteSpace == {" "}

\* String.prototype.trim
RECURSIVE trimStart(_)
trimStart(s) ==
  IF s # <<>> /\ Head(s) \in WhiteSpace THEN trimStart(Tail(s)) ELSE s

RECURSIVE trimEnd(_)
trimEnd(s) ==
  IF s # <<>> /\ s[Len(s)] \in WhiteSpace
    THEN trimEnd(SubSeq(s, 1, Len(s) - 1)) ELSE s

trim(s) == trimEnd(trimStart(s))

\* /^\d+$/.test(s)
testDigits(s) == Len(s) >= 1 /\ \A i \in 1..Len(s) : s[i] \in Digits

\* the longest prefix of s made of digits, as a number; acc is the value so
\* far and n the number of digits consumed
RECURSIVE digitPrefix(_, _, _)
digitPrefix(s, acc, n) ==
  IF s # <<>> /\ Head(s) \in Digits
    THEN digitPrefix(Tail(s), 10 * acc + DigitVal(Head(s)), n + 1)
    ELSE [value |-> acc, count |-> n]

\* Number.parseInt(s, 10): leading white space is skipped, one sign is
\* accepted, the digits that follow are read; NaN when there is none
parseInt(s) ==
  LET t == trimStart(s)
      neg == t # <<>> /\ Head(t) = "-"
      u == IF t # <<>> /\ Head(t) \in {"-", "+"} THEN Tail(t) ELSE t
      p == digitPrefix(u, 0, 0)
  IN IF p.count = 0 THEN [nan |-> TRUE, n |-> 0]
     ELSE [nan |-> FALSE, n |-> IF neg THEN 0 - p.value ELSE p.value]

validateTaskId_zero(id) ==
  IF id = <<>> \/ trim(id) = <<>> \/ ~testDigits(id)
    THEN [ok |-> FALSE, taskId |-> 0]
    ELSE LET taskId == parseInt(id)
         IN IF taskId.nan \/ taskId.n < 0
              THEN [ok |-> FALSE, taskId |-> 0]
              ELSE [ok |-> TRUE, taskId |-> taskId.n]

validateTaskId(id) ==
  IF id = <<>> \/ trim(id) = <<>> \/ ~testDigits(id)
    THEN [ok |-> FALSE, taskId |-> 0]
    ELSE LET taskId == parseInt(id)
         IN IF taskId.nan \/ taskId.n <= 0
              THEN [ok |-> FALSE, taskId |-> 0]
              ELSE [ok |-> TRUE, taskId |-> taskId.n]

(* ------------------- string width (validation.ts 23-183) --------------- *)

\* A character is one code point, named by a one-character string when it
\* is ASCII and by its U+ name otherwise; all of them are in the basic
\* plane, so a character is one UTF-16 code unit.

\* the printable ASCII characters from 0x20 to 0x5f
Ascii ==
  <<" ", "!", "\"", "#", "$", "%", "&", "'", "(", ")", "*", "+", ",", "-", ".", "/",
    "0", "1", "2", "3", "4", "5", "6", "7", "8", "9", ":", ";", "<", "=", ">", "?",
    "@", "A", "B", "C", "D", "E", "F", "G", "H", "I", "J", "K", "L", "M", "N", "O",
    "P", "Q", "R", "S", "T", "U", "V", "W", "X", "Y", "Z", "[", "\\", "]", "^", "_">>

\* the ASCII letters and signs from 0x61 to 0x7e
AsciiLower ==
  <<"a", "b", "c", "d", "e", "f", "g", "h", "i", "j", "k", "l", "m", "n", "o", "p",
    "q", "r", "s", "t", "u", "v", "w", "x", "y", "z", "{", "|", "}", "~">>

\* the position of ch in the sequence s, 0 when it is not in it
indexOf(s, ch) ==
  IF \E i \in 1..Len(s) : s[i] = ch THEN CHOOSE i \in 1..Len(s) : s[i] = ch ELSE 0

\* char.codePointAt(0)
codePointAt(ch) ==
  IF indexOf(Ascii, ch) > 0 THEN \H1f + indexOf(Ascii, ch)
  ELSE IF indexOf(AsciiLower, ch) > 0 THEN \H60 + indexOf(AsciiLower, ch)
  ELSE CASE ch = "\t" -> \H09
         [] ch = "\n" -> \H0a
         [] ch = "U+0301" -> \H0301
         [] ch = "U+2026" -> \H2026
         [] ch = "U+3002" -> \H3002
         [] ch = "U+3042" -> \H3042
         [] ch = "U+FF71" -> \Hff71

isFullWidth(code) ==
  IF \/ (code >= \H4e00 /\ code <= \H9fff)
     \/ (code >= \H3400 /\ code <= \H4dbf)
     \/ (code >= \H20000 /\ code <= \H2a6df)
     \/ (code >= \H2a700 /\ code <= \H2b73f)
     \/ (code >= \H2b740 /\ code <= \H2b81f)
     \/ (code >= \H2b820 /\ code <= \H2ceaf)
     \/ (code >= \Hf900 /\ code <= \Hfaff)
     \/ (code >= \H2f800 /\ code <= \H2fa1f)
    THEN TRUE
  ELSE IF \/ (code >= \H1100 /\ code <= \H11ff)
          \/ (code >= \Hac00 /\ code <= \Hd7af)
          \/ (code >= \Ha960 /\ code <= \Ha97f)
          \/ (code >= \Hd7b0 /\ code <= \Hd7ff)
    THEN TRUE
  ELSE IF \/ (code >= \H3040 /\ code <= \H309f)
          \/ (code >= \H30a0 /\ code <= \H30ff)
    THEN TRUE
  ELSE IF code >= \Hff01 /\ code <= \Hff60
    THEN TRUE
  ELSE IF code >= \Hff61 /\ code <= \Hff9f
    THEN FALSE
  ELSE IF \/ code = \H3000
          \/ (code >= \H2e80 /\ code <= \H2eff)
          \/ (code >= \H3000 /\ code <= \H303f)
          \/ (code >= \H3200 /\ code <= \H32ff)
          \/ (code >= \Hfe10 /\ code <= \Hfe1f)
          \/ (code >= \Hfe30 /\ code <= \Hfe4f)
          \/ (code >= \Hfe50 /\ code <= \Hfe6f)
    THEN TRUE
  ELSE IF code >= \H1f300 /\ code <= \H1f9ff
    THEN TRUE
  ELSE FALSE

\* the width one character adds in the loop of stringWidth
charWidth(ch) ==
  LET code == codePointAt(ch)
  IN IF (code <= \H1f /\ code # \H20) \/ (code >= \H7f /\ code <= \H9f) THEN 0
     ELSE IF code >= \H300 /\ code <= \H36f THEN 0
     ELSE IF isFullWidth(code) THEN 2
     ELSE 1

RECURSIVE stringWidth(_)
stringWidth(str) ==
  IF str = <<>> THEN 0 ELSE charWidth(Head(str)) + stringWidth(Tail(str))

\* s.substring(0, n)
substring(s, n) == SubSeq(s, 1, IF n < Len(s) THEN n ELSE Len(s))

\* the loop of truncateString: the characters of chars taken while the
\* width so far plus the next one stays within targetWidth
RECURSIVE takeWidth(_, _, _)
takeWidth(chars, targetWidth, currentWidth) ==
  IF chars = <<>> \/ currentWidth + stringWidth(<<Head(chars)>>) > targetWidth
    THEN <<>>
    ELSE <<Head(chars)>>
           \o takeWidth(Tail(chars), targetWidth,
                        currentWidth + stringWidth(<<Head(chars)>>))

truncateString(str, maxWidth, ellipsis) ==
  IF str = <<>> \/ maxWidth <= 0 THEN <<>>
  ELSE IF stringWidth(str) <= maxWidth THEN str
  ELSE IF maxWidth <= stringWidth(ellipsis) THEN substring(ellipsis, maxWidth)
  ELSE takeWidth(str, maxWidth - stringWidth(ellipsis), 0) \o ellipsis

\* fillChar.repeat(n)
RECURSIVE repeat(_, _)
repeat(fillChar, n) == IF n <= 0 THEN <<>> ELSE fillChar \o repeat(fillChar, n - 1)

Throw(err) == [t |-> "throw", err |-> err]

padEnd_length(str, targetWidth, fillChar) ==
  Str(str \o repeat(fillChar, targetWidth - Len(str)))

\* The padded string; a fill of width 0 makes the count Infinity, with which
\* String.prototype.repeat throws a RangeError.
padEnd(str, targetWidth, fillChar) ==
  LET currentWidth == stringWidth(str)
      fillWidth == stringWidth(fillChar)
      remainingWidth == targetWidth - currentWidth
  IN IF currentWidth >= targetWidth THEN Str(str)
     ELSE IF fillWidth = 0 THEN Throw("RangeError")
     ELSE Str(str \o repeat(fillChar, remainingWidth \div fillWidth))

(* ------------------- src/commands/add.ts ------------------------------- *)

\* z.string().optional()
optString(v) == v.t \in {"undef", "str"}

taskSchema_nonEmpty(item) ==
  /\ item.t = "obj"
  /\ item.customId.t = "str" /\ item.customId.v # <<>>
  /\ optString(item.name)
  /\ optString(item.description)
  /\ item.status.t = "undef" \/ (item.status.t = "str" /\ item.status.v \in {sWip, sDone})
  /\ optString(item.comment)

\* taskSchema
taskSchema(item) ==
  /\ item.t = "obj"
  /\ item.customId.t = "str"
  /\ optString(item.name)
  /\ optString(item.description)
  /\ item.status.t = "undef" \/ (item.status.t = "str" /\ item.status.v \in {sWip, sDone})
  /\ optString(item.comment)

\* z.array(taskSchema).parse(parsed)
zodArray(json) ==
  /\ json.t = "arr"
  /\ \A i \in 1..Len(json.items) : taskSchema(json.items[i])

\* a column of .values({...}): an undefined value takes the column default
colValue(v) == IF v.t = "str" THEN Str(v.v) ELSE NULL

\* a column of .set({...}): an undefined value is left out of the SET clause
setValue(v, old) == IF v.t = "str" THEN Str(v.v) ELSE old

statusOrWip_done(v) == IF v.t = "str" /\ v.v # <<>> THEN v.v ELSE sDone

\* task.status || "wip"
statusOrWip(v) == IF v.t = "str" /\ v.v # <<>> THEN v.v ELSE sWip

conflictRow_none(rows, customId, category) == {}

\* the position of the row that holds the unique key (customId, category)
conflictRow(rows, customId, category) ==
  {i \in 1..Len(rows) : rows[i].customId = customId /\ rows[i].category = category}

upsert_recreate(db, category, task, time) ==
  LET hit == conflictRow(db.tasks, task.customId.v, category)
  IN IF hit # {}
       THEN [db EXCEPT !.tasks = [i \in 1..Len(db.tasks) |->
               IF i \in hit
                 THEN [db.tasks[i] EXCEPT
                         !.name = setValue(task.name, @),
                         !.description = setValue(task.description, @),
                         !.status = statusOrWip(task.status),
                         !.comment = setValue(task.comment, @),
                         !.createdAt = time,
                         !.updatedAt = time]
                 ELSE db.tasks[i]]]
       ELSE [tasks |-> Append(db.tasks,
                         [id |-> db.seq + 1,
                          customId |-> task.customId.v,
                          category |-> category,
                          name |-> colValue(task.name),
                          description |-> colValue(task.description),
                          status |-> statusOrWip(task.status),
                          comment |-> colValue(task.comment),
                          createdAt |-> time,
                          updatedAt |-> time]),
             seq |-> db.seq + 1]

upsert_reuseId(db, category, task, time) ==
  LET hit == conflictRow(db.tasks, task.customId.v, category)
      ids == {db.tasks[i].id : i \in 1..Len(db.tasks)}
      free == CHOOSE n \in 1..(Len(db.tasks) + 1) : n \notin ids
  IN IF hit # {}
       THEN [db EXCEPT !.tasks = [i \in 1..Len(db.tasks) |->
               IF i \in hit
                 THEN [db.tasks[i] EXCEPT
                         !.name = setValue(task.name, @),
                         !.description = setValue(task.description, @),
                         !.status = statusOrWip(task.status),
                         !.comment = setValue(task.comment, @),
                         !.updatedAt = time]
                 ELSE db.tasks[i]]]
       ELSE [tasks |-> Append(db.tasks,
                         [id |-> free,
                          customId |-> task.customId.v,
                          category |-> category,
                          name |-> colValue(task.name),
                          description |-> colValue(task.description),
                          status |-> statusOrWip(task.status),
                          comment |-> colValue(task.comment),
                          createdAt |-> time,
                          updatedAt |-> time]),
             seq |-> IF free > db.seq THEN free ELSE db.seq]

\* one insert ... onConflictDoUpdate statement
upsert(db, category, task, time) ==
  LET hit == conflictRow(db.tasks, task.customId.v, category)
  IN IF hit # {}
       THEN [db EXCEPT !.tasks = [i \in 1..Len(db.tasks) |->
               IF i \in hit
                 THEN [db.tasks[i] EXCEPT
                         !.name = setValue(task.name, @),
                         !.description = setValue(task.description, @),
                         !.status = statusOrWip(task.status),
                         !.comment = setValue(task.comment, @),
                         !.updatedAt = time]
                 ELSE db.tasks[i]]]
       ELSE [tasks |-> Append(db.tasks,
                         [id |-> db.seq + 1,
                          customId |-> task.customId.v,
                          category |-> category,
                          name |-> colValue(task.name),
                          description |-> colValue(task.description),
                          status |-> statusOrWip(task.status),
                          comment |-> colValue(task.comment),
                          createdAt |-> time,
                          updatedAt |-> time]),
             seq |-> db.seq + 1]

RECURSIVE upsertAll_reverse(_, _, _, _)
upsertAll_reverse(db, category, items, time) ==
  IF items = <<>> THEN db
  ELSE upsert(upsertAll_reverse(db, category, Tail(items), time), category, Head(items), time)

\* for (const task of tasks) await db.insert(...)
RECURSIVE upsertAll(_, _, _, _)
upsertAll(db, category, items, time) ==
  IF items = <<>> THEN db
  ELSE upsertAll(upsert(db, category, Head(items), time), category, Tail(items), time)

\* what the command printed and threw, the arguments it was called with and
\* the number of statements it sent to the store
Result(op, category, arg, err, out, style, stmts) ==
  [op |-> op, category |-> category, arg |-> arg,
   err |-> err, out |-> out, style |-> style, stmts |-> stmts]

\* the items before the first one that fails the schema
RECURSIVE validPrefix(_)
validPrefix(items) ==
  IF items = <<>> \/ ~taskSchema(Head(items)) THEN <<>>
  ELSE <<Head(items)>> \o validPrefix(Tail(items))

add_perItem(category, json) ==
  IF json.t = "malformed"
    THEN /\ last' = Result("add", category, json, "SyntaxError", NONE, "", 0)
         /\ UNCHANGED <<tasks, seq, now>>
  ELSE IF json.t # "arr"
    THEN /\ last' = Result("add", category, json, "ZodError", NONE, "", 0)
         /\ UNCHANGED <<tasks, seq, now>>
  ELSE LET ok == validPrefix(json.items)
           db == upsertAll([tasks |-> tasks, seq |-> seq], category, ok, now)
       IN /\ db.seq <= MaxSeq
          /\ tasks' = db.tasks
          /\ seq' = db.seq
          /\ last' = IF Len(ok) = Len(json.items)
                       THEN Result("add", category,
                                   json, "none", Count(Len(json.items)), "", Len(ok))
                       ELSE Result("add", category, json, "ZodError", NONE, "", Len(ok))
          /\ UNCHANGED now

add(category, json) ==
  IF json.t = "malformed"
    THEN /\ last' = Result("add", category, json, "SyntaxError", NONE, "", 0)
         /\ UNCHANGED <<tasks, seq, now>>
  ELSE IF ~zodArray(json)
    THEN /\ last' = Result("add", category, json, "ZodError", NONE, "", 0)
         /\ UNCHANGED <<tasks, seq, now>>
  ELSE LET db == upsertAll([tasks |-> tasks, seq |-> seq], category, json.items, now)
       IN /\ db.seq <= MaxSeq
          /\ tasks' = db.tasks
          /\ seq' = db.seq
          /\ last' = Result("add", category, json, "none",
                          Count(Len(json.items)), "", Len(json.items))
          /\ UNCHANGED now

addStoreError_rollback(category, json, k) ==
  /\ json.t = "arr" /\ zodArray(json)
  /\ k \in 1..Len(json.items)
  /\ last' = Result("add", category, json, "StoreError", NONE, "", k)
  /\ UNCHANGED <<tasks, seq, now>>

\* add when the store fails on the statement of item k: the statements
\* before it are committed one by one, the error leaves the loop, is logged
\* and thrown again
addStoreError(category, json, k) ==
  /\ json.t = "arr" /\ zodArray(json)
  /\ k \in 1..Len(json.items)
  /\ LET db == upsertAll([tasks |-> tasks, seq |-> seq], category,
                         SubSeq(json.items, 1, k - 1), now)
     IN /\ db.seq <= MaxSeq
        /\ tasks' = db.tasks
        /\ seq' = db.seq
        /\ last' = Result("add", category, json, "StoreError", NONE, "", k)
        /\ UNCHANGED now

(* ------------------- src/commands/done.ts, wip.ts ---------------------- *)

commentOrNull_raw(comment) ==
  IF comment.t = "str" THEN Str(comment.v) ELSE NULL

\* comment || null
commentOrNull(comment) ==
  IF comment.t = "str" /\ comment.v # <<>> THEN Str(comment.v) ELSE NULL

matchId_anyCategory(rows, category, taskId) ==
  {i \in 1..Len(rows) : rows[i].id = taskId}

\* the rows of and(eq(category), eq(id))
matchId(rows, category, taskId) ==
  {i \in 1..Len(rows) : rows[i].category = category /\ rows[i].id = taskId}

setStatus_noValidate(op, status, category, id, comment) ==
  LET hit == matchId(tasks, category, parseInt(id).n) IN
    IF hit = {}
      THEN /\ last' = Result(op, category, Str(id), "NotFound", NONE, "", 1)
           /\ UNCHANGED <<tasks, seq, now>>
      ELSE /\ tasks' = [i \in 1..Len(tasks) |->
                 IF i \in hit
                   THEN [tasks[i] EXCEPT !.status = status,
                                         !.comment = commentOrNull(comment),
                                         !.updatedAt = now]
                   ELSE tasks[i]]
           /\ last' = Result(op, category, Str(id), "none", Count(Cardinality(hit)), "", 1)
           /\ UNCHANGED <<seq, now>>

setStatus_touchCreated(op, status, category, id, comment) ==
  LET v == validateTaskId(id) IN
  IF ~v.ok
    THEN /\ last' = Result(op, category, Str(id), "InvalidTaskId", NONE, "", 0)
         /\ UNCHANGED <<tasks, seq, now>>
  ELSE LET hit == matchId(tasks, category, v.taskId) IN
    IF hit = {}
      THEN /\ last' = Result(op, category, Str(id), "NotFound", NONE, "", 1)
           /\ UNCHANGED <<tasks, seq, now>>
      ELSE /\ tasks' = [i \in 1..Len(tasks) |->
                 IF i \in hit
                   THEN [tasks[i] EXCEPT !.status = status,
                                         !.comment = commentOrNull(comment),
                                         !.createdAt = now,
                                         !.updatedAt = now]
                   ELSE tasks[i]]
           /\ last' = Result(op, category, Str(id), "none", Count(Cardinality(hit)), "", 1)
           /\ UNCHANGED <<seq, now>>

setStatus_keepUpdated(op, status, category, id, comment) ==
  LET v == validateTaskId(id) IN
  IF ~v.ok
    THEN /\ last' = Result(op, category, Str(id), "InvalidTaskId", NONE, "", 0)
         /\ UNCHANGED <<tasks, seq, now>>
  ELSE LET hit == matchId(tasks, category, v.taskId) IN
    IF hit = {}
      THEN /\ last' = Result(op, category, Str(id), "NotFound", NONE, "", 1)
           /\ UNCHANGED <<tasks, seq, now>>
      ELSE /\ tasks' = [i \in 1..Len(tasks) |->
                 IF i \in hit
                   THEN [tasks[i] EXCEPT !.status = status,
                                         !.comment = commentOrNull(comment)]
                   ELSE tasks[i]]
           /\ last' = Result(op, category, Str(id), "none", Count(Cardinality(hit)), "", 1)
           /\ UNCHANGED <<seq, now>>

\* the update of done and wip: status, comment and updatedAt of the row
setStatus(op, status, category, id, comment) ==
  LET v == validateTaskId(id) IN
  IF ~v.ok
    THEN /\ last' = Result(op, category, Str(id), "InvalidTaskId", NONE, "", 0)
         /\ UNCHANGED <<tasks, seq, now>>
  ELSE LET hit == matchId(tasks, category, v.taskId) IN
    IF hit = {}
      THEN /\ last' = Result(op, category, Str(id), "NotFound", NONE, "", 1)
           /\ UNCHANGED <<tasks, seq, now>>
      ELSE /\ tasks' = [i \in 1..Len(tasks) |->
                 IF i \in hit
                   THEN [tasks[i] EXCEPT !.status = status,
                                         !.comment = commentOrNull(comment),
                                         !.updatedAt = now]
                   ELSE tasks[i]]
           /\ last' = Result(op, category, Str(id), "none", Count(Cardinality(hit)), "", 1)
           /\ UNCHANGED <<seq, now>>

done(category, id, comment) == setStatus("done", sDone, category, id, comment)

wip(category, id, comment) == setStatus("wip", sWip, category, id, comment)

(* ------------------- remove ------------------------------------------- *)

deleteRows_all(rows, drop, i) == IF drop = {} THEN rows ELSE <<>>

\* the rows of s that are not at a position of drop, in order
RECURSIVE deleteRows(_, _, _)
deleteRows(rows, drop, i) ==
  IF i > Len(rows) THEN <<>>
  ELSE IF i \in drop THEN deleteRows(rows, drop, i + 1)
  ELSE <<rows[i]>> \o deleteRows(rows, drop, i + 1)

remove_silent(category, id) ==
  LET v == validateTaskId(id) IN
  IF ~v.ok
    THEN /\ last' = Result("remove", category, Str(id), "InvalidTaskId", NONE, "", 0)
         /\ UNCHANGED <<tasks, seq, now>>
  ELSE LET hit == matchId(tasks, category, v.taskId) IN
         /\ tasks' = deleteRows(tasks, hit, 1)
         /\ last' = Result("remove", category, Str(id), "none", Count(Cardinality(hit)), "", 1)
         /\ UNCHANGED <<seq, now>>

remove(category, id) ==
  LET v == validateTaskId(id) IN
  IF ~v.ok
    THEN /\ last' = Result("remove", category, Str(id), "InvalidTaskId", NONE, "", 0)
         /\ UNCHANGED <<tasks, seq, now>>
  ELSE LET hit == matchId(tasks, category, v.taskId) IN
    IF hit = {}
      THEN /\ last' = Result("remove", category, Str(id), "NotFound", NONE, "", 1)
           /\ UNCHANGED <<tasks, seq, now>>
      ELSE /\ tasks' = deleteRows(tasks, hit, 1)
           /\ last' = Result("remove", category, Str(id), "none", Count(Cardinality(hit)), "", 1)
           /\ UNCHANGED <<seq, now>>

(* ------------------- get ----------------------------------------------- *)

isValidNumericId(idOrCustomId) ==
  LET id == parseInt(idOrCustomId)
  IN ~id.nan /\ id.n >= 0 /\ testDigits(idOrCustomId)

\* the rows of and(eq(category), or(eq(id), eq(customId)))
matchGet(rows, category, idOrCustomId) ==
  {i \in 1..Len(rows) :
     /\ rows[i].category = category
     /\ \/ isValidNumericId(idOrCustomId) /\ rows[i].id = parseInt(idOrCustomId).n
        \/ rows[i].customId = idOrCustomId}

\* The select has no ORDER BY: which matching row the engine returns first,
\* and so which one is task[0], is the engine's choice.
get(category, idOrCustomId) ==
  LET hit == matchGet(tasks, category, idOrCustomId)
      style == IF isValidNumericId(idOrCustomId) THEN "id" ELSE "customId"
  IN /\ IF hit # {}
          THEN \E i \in hit :
                 last' = Result("get", category, Str(idOrCustomId), "none", tasks[i], "", 1)
          ELSE last' = Result("get", category, Str(idOrCustomId), "NotFound", NONE, style, 1)
     /\ UNCHANGED <<tasks, seq, now>>

(* ------------------- list, todo --------------------------------------- *)

InCategory(rows, category) == {i \in 1..Len(rows) : rows[i].category = category}

\* The rows a select returns, given the positions that satisfy its WHERE:
\* the table is scanned in rowid order, which is the order of tasks.
selectRows(rows, hit) == deleteRows(rows, (1..Len(rows)) \ hit, 1)

\* JSON.stringify(tasks, null, 2) printed to the console
Rows(rows) == [t |-> "rows", rows |-> rows]

list(category) ==
  /\ last' = Result("list", category, NONE, "none",
                    Rows(selectRows(tasks, InCategory(tasks, category))), "", 1)
  /\ UNCHANGED <<tasks, seq, now>>

\* the rows of and(eq(category), eq(status, "wip"))
matchTodo(rows, category) ==
  {i \in 1..Len(rows) : rows[i].category = category /\ rows[i].status = sWip}

todo(category) ==
  /\ last' = Result("todo", category, NONE, "none",
                    Rows(selectRows(tasks, matchTodo(tasks, category))), "", 1)
  /\ UNCHANGED <<tasks, seq, now>>

(* ------------------- search -------------------------------------------- *)

\* query.replace(/[%_]/g, "\\$&")
RECURSIVE escapeLike(_)
escapeLike(query) ==
  IF query = <<>> THEN <<>>
  ELSE (IF Head(query) \in {"%", "_"} THEN <<"\\", Head(query)>> ELSE <<Head(query)>>)
         \o escapeLike(Tail(query))

searchPattern(query) == <<"%">> \o escapeLike(query) \o <<"%">>

\* the lower-case form of an ASCII letter, any other character as it is
toLower(ch) ==
  LET code == codePointAt(ch)
  IN IF code >= \H41 /\ code <= \H5a THEN AsciiLower[code - \H40] ELSE ch

\* text LIKE pattern ESCAPE '\': % matches any run of characters, _ any one
\* character, the character after a backslash matches itself, and letters
\* match without regard to case
RECURSIVE like(_, _)
like(pattern, text) ==
  IF pattern = <<>> THEN text = <<>>
  ELSE IF Head(pattern) = "\\"
    THEN /\ Len(pattern) >= 2
         /\ text # <<>>
         /\ toLower(Head(text)) = toLower(pattern[2])
         /\ like(SubSeq(pattern, 3, Len(pattern)), Tail(text))
  ELSE IF Head(pattern) = "%"
    THEN \E k \in 0..Len(text) : like(Tail(pattern), SubSeq(text, k + 1, Len(text)))
  ELSE IF Head(pattern) = "_"
    THEN text # <<>> /\ like(Tail(pattern), Tail(text))
  ELSE /\ text # <<>>
       /\ toLower(Head(text)) = toLower(Head(pattern))
       /\ like(Tail(pattern), Tail(text))

\* column LIKE pattern on a column that may be NULL
likeColumn(v, pattern) == v.t = "str" /\ like(pattern, v.v)

\* the rows of and(eq(category), or(customId LIKE, name LIKE, description LIKE))
matchSearch(rows, category, query) ==
  {i \in 1..Len(rows) :
     /\ rows[i].category = category
     /\ \/ like(searchPattern(query), rows[i].customId)
        \/ likeColumn(rows[i].name, searchPattern(query))
        \/ likeColumn(rows[i].description, searchPattern(query))}

search(category, query) ==
  /\ last' = Result("search", category, Str(query), "none",
                    Rows(selectRows(tasks, matchSearch(tasks, category, query))), "", 1)
  /\ UNCHANGED <<tasks, seq, now>>

(* ------------------- show, status -------------------------------------- *)

\* the characters of a category name
chars(category) ==
  CASE category = "c1" -> <<"c", "1">>
    [] category = "c2" -> <<"c", "2">>
    [] category = "category3" -> <<"c", "a", "t", "e", "g", "o", "r", "y", "3">>

DigitChars == <<"0", "1", "2", "3", "4", "5", "6", "7", "8", "9">>

\* n.toString() of a number n >= 0
RECURSIVE toString(_)
toString(n) ==
  IF n < 10 THEN <<DigitChars[n + 1]>>
  ELSE toString(n \div 10) \o <<DigitChars[(n % 10) + 1]>>

\* v || ""
orEmpty(v) == IF v.t = "str" THEN v.v ELSE <<>>

\* Math.max(min, ...widths)
mathMax(min, widths) ==
  CHOOSE m \in widths \cup {min} : \A w \in widths \cup {min} : w <= m

\* the lines of text that console.log(text) writes: text and a line break
RECURSIVE splitLines(_, _)
splitLines(text, line) ==
  IF text = <<>> THEN <<line>>
  ELSE IF Head(text) = "\n" THEN <<line>> \o splitLines(Tail(text), <<>>)
  ELSE splitLines(Tail(text), Append(line, Head(text)))

\* the lines of text on the console after the calls of console.log
RECURSIVE stdout(_)
stdout(logs) ==
  IF logs = <<>> THEN <<>> ELSE splitLines(Head(logs), <<>>) \o stdout(Tail(logs))

\* the strings given to console.log and the lines of text they make
Printed(logs) == [t |-> "printed", logs |-> logs, lines |-> stdout(logs)]

\* `${padEnd(cell, col)} | ` + ... + `${padEnd(cell, col)}`
RECURSIVE tableRow(_, _)
tableRow(cells, cols) ==
  padEnd(Head(cells), Head(cols), <<" ">>).v
    \o (IF Len(cells) = 1 THEN <<>>
        ELSE <<" ", "|", " ">> \o tableRow(Tail(cells), Tail(cols)))

\* `${"-".repeat(col)}-+-` + ... + `${"-".repeat(col)}`
RECURSIVE tableSeparator(_)
tableSeparator(cols) ==
  repeat(<<"-">>, Head(cols))
    \o (IF Len(cols) = 1 THEN <<>> ELSE <<"-", "+", "-">> \o tableSeparator(Tail(cols)))

showHeader ==
  << <<"I", "D">>,
     <<"C", "u", "s", "t", "o", "m", "I", "D">>,
     <<"N", "a", "m", "e">>,
     <<"D", "e", "s", "c", "r", "i", "p", "t", "i", "o", "n">>,
     <<"S", "t", "a", "t", "u", "s">>,
     <<"C", "o", "m", "m", "e", "n", "t">> >>

\* the cells of the data row of a task
showCells(t) ==
  <<toString(t.id), t.customId, orEmpty(t.name), orEmpty(t.description),
    t.status, orEmpty(t.comment)>>

\* the column widths of show: id, customId, name, description, status, comment
showCols(rows) ==
  LET width(k) == {stringWidth(showCells(rows[i])[k]) : i \in 1..Len(rows)}
  IN <<mathMax(2, width(1)), mathMax(8, width(2)), mathMax(4, width(3)),
       mathMax(11, width(4)), mathMax(6, width(5)), mathMax(7, width(6))>>

\* `No tasks found in category '${category}'`
noTasksIn(category) ==
  <<"N", "o", " ", "t", "a", "s", "k", "s", " ", "f", "o", "u", "n", "d",
    " ", "i", "n", " ", "c", "a", "t", "e", "g", "o", "r", "y", " ", "'">>
    \o chars(category) \o <<"'">>

\* the strings that show gives to console.log
showLogs(rows, category) ==
  IF Len(rows) = 0 THEN <<noTasksIn(category)>>
  ELSE LET cols == showCols(rows)
       IN <<tableRow(showHeader, cols), tableSeparator(cols)>>
            \o [i \in 1..Len(rows) |-> tableRow(showCells(rows[i]), cols)]

show(category) ==
  /\ \E logs \in {showLogs(selectRows(tasks, InCategory(tasks, category)), category)} :
       last' = Result("show", category, NONE, "none", Printed(logs), "", 1)
  /\ UNCHANGED <<tasks, seq, now>>

\* select category, status, COUNT(*) ... group by category, status
groupBy(rows) ==
  {[category |-> rows[i].category, status |-> rows[i].status,
    count |-> Cardinality({j \in 1..Len(rows) :
                             /\ rows[j].category = rows[i].category
                             /\ rows[j].status = rows[i].status})] : i \in 1..Len(rows)}

\* the orders in which a select without ORDER BY may return the rows S
Orderings(S) ==
  {f \in [1..Cardinality(S) -> S] : \A i, j \in 1..Cardinality(S) : f[i] = f[j] => i = j}

foldResult_doneAsWip(summaries, result) ==
  LET s0 == IF \E i \in 1..Len(summaries) : summaries[i].category = result.category
              THEN summaries
              ELSE Append(summaries, [category |-> result.category,
                                      wipCount |-> 0, doneCount |-> 0])
      at == CHOOSE i \in 1..Len(s0) : s0[i].category = result.category
  IN [s0 EXCEPT ![at] =
        IF result.status = sWip THEN [@ EXCEPT !.wipCount = result.count]
        ELSE IF result.status = sDone THEN [@ EXCEPT !.wipCount = result.count]
        ELSE @]

\* one turn of the loop over the results: the summary of the category is
\* made if the map has none, and the count of the status is put in it
foldResult(summaries, result) ==
  LET s0 == IF \E i \in 1..Len(summaries) : summaries[i].category = result.category
              THEN summaries
              ELSE Append(summaries, [category |-> result.category,
                                      wipCount |-> 0, doneCount |-> 0])
      at == CHOOSE i \in 1..Len(s0) : s0[i].category = result.category
  IN [s0 EXCEPT ![at] =
        IF result.status = sWip THEN [@ EXCEPT !.wipCount = result.count]
        ELSE IF result.status = sDone THEN [@ EXCEPT !.doneCount = result.count]
        ELSE @]

\* Array.from(summaryMap.values()) after the loop
RECURSIVE summarise(_, _)
summarise(summaries, results) ==
  IF results = <<>> THEN summaries
  ELSE summarise(foldResult(summaries, Head(results)), Tail(results))

statusHeader ==
  << <<"C", "a", "t", "e", "g", "o", "r", "y">>,
     <<"W", "I", "P">>,
     <<"D", "o", "n", "e">> >>

statusCells(s) == <<chars(s.category), toString(s.wipCount), toString(s.doneCount)>>

\* the column widths of status: category, wip, done
statusCols(summaries) ==
  LET width(k) == {stringWidth(statusCells(summaries[i])[k]) : i \in 1..Len(summaries)}
  IN <<mathMax(8, width(1)), mathMax(3, width(2)), mathMax(4, width(3))>>

noTasksAnywhere ==
  <<"N", "o", " ", "t", "a", "s", "k", "s", " ", "f", "o", "u", "n", "d",
    " ", "i", "n", " ", "a", "n", "y", " ", "c", "a", "t", "e", "g", "o",
    "r", "y">>

\* the strings that status gives to console.log
statusLogs(summaries) ==
  IF Len(summaries) = 0 THEN <<noTasksAnywhere>>
  ELSE LET cols == statusCols(summaries)
       IN <<tableRow(statusHeader, cols), tableSeparator(cols)>>
            \o [i \in 1..Len(summaries) |-> tableRow(statusCells(summaries[i]), cols)]

\* the summaries status made and what it printed
Summary(summaries, logs) ==
  [t |-> "summary", summaries |-> summaries, logs |-> logs, lines |-> stdout(logs)]

(* ------------------- the clock ----------------------------------------- *)

Tick ==
  /\ now < MaxClock
  /\ now' = now + 1
  /\ UNCHANGED <<tasks, seq, last>>

(* ------------------- inputs -------------------------------------------- *)

Obj(customId, name, description, status, comment) ==
  [t |-> "obj", customId |-> customId, name |-> name,
   description |-> description, status |-> status, comment |-> comment]

A1 == Obj(Str(<<"a">>), UNDEF, UNDEF, UNDEF, UNDEF)
A2 == Obj(Str(<<"a">>), Str(<<"n">>), Str(<<"d">>), Str(sDone), Str(<<"k">>))
A3 == Obj(Str(<<"a">>), UNDEF, UNDEF, Str(sWip), Str(<<>>))
E0 == Obj(Str(<<>>), Str(<<>>), UNDEF, UNDEF, UNDEF)
B1 == Obj(Str(<<"1">>), UNDEF, UNDEF, UNDEF, UNDEF)
B2 == Obj(Str(<<"2">>), UNDEF, UNDEF, UNDEF, UNDEF)
Z0 == Obj(Str(<<"0">>), UNDEF, UNDEF, UNDEF, UNDEF)
NoCustomId == Obj(UNDEF, Str(<<"n">>), UNDEF, UNDEF, UNDEF)
NumCustomId == Obj(NUM, Str(<<"n">>), UNDEF, UNDEF, UNDEF)
BadStatus == Obj(Str(<<"a">>), UNDEF, UNDEF, Str(sBad), UNDEF)

Arr(items) == [t |-> "arr", items |-> items]

\* items that satisfy the schema of add
ValidItems == {A1, A2, A3, E0, B1, B2, Z0}

Batches ==
  { <<>>, <<A1>>, <<A2>>, <<A3>>,
    <<A2, A1>>, <<A2, A3>>, <<A3, A2>>,
    <<A1, NoCustomId>>, <<A2, NumCustomId>>, <<A2, BadStatus>>,
    <<BadStatus, A1>>, <<A1, NUM>> }

\* the arguments of add: text that is no JSON, null, an object, arrays
Jsons ==
  {[t |-> "malformed"], [t |-> "null"], A1} \cup {Arr(s) : s \in Batches}

Comments == {UNDEF, Str(<<>>), Str(<<"k">>)}

Ids == {<<"1">>, <<"2">>, <<"0">>}

GetJsons ==
  {Arr(<<A1>>), Arr(<<B1>>), Arr(<<B2>>), Arr(<<Z0>>), Arr(<<E0>>), Arr(<<B2, E0>>)}

GetIds == {<<"1">>, <<"2">>, <<"0">>, <<"0", "1">>, <<"a">>}

SeqsUpTo(S, n) == UNION {[1..k -> S] : k \in 0..n}

IdChars == {"0", "1", "-", "+", ".", "e", "x", "a", " "}

IdStrings == SeqsUpTo(IdChars, MaxIdLen)

ClockJsons == {Arr(<<A1>>), Arr(<<A2>>), Arr(<<A2, A3>>), Arr(<<B2, A1>>)}

ClockIds == {<<"1">>, <<"2">>}

\* the inputs of SpecFrame: the task "a" added to either category
FrameJsons == {Arr(<<A1>>), Arr(<<A2>>)}

FrameIds == {<<"1">>, <<"2">>}

FrameKeys == {<<"1">>, <<"2">>, <<"a">>}

FrameQueries == {<<>>, <<"a">>, <<"n">>}

\* the inputs of SpecSearch: tasks whose texts hold %, _ and \, in either case
P1 == Obj(Str(<<"a", "%">>), UNDEF, UNDEF, UNDEF, UNDEF)
U1 == Obj(Str(<<"A", "_">>), Str(<<"a", "b">>), UNDEF, UNDEF, UNDEF)
K1 == Obj(Str(<<"k">>), Str(<<"\\", "a">>), UNDEF, UNDEF, UNDEF)
D1 == Obj(Str(<<"d">>), UNDEF, Str(<<"%", "_">>), UNDEF, UNDEF)

SearchJsons == {Arr(<<P1>>), Arr(<<U1>>), Arr(<<K1>>), Arr(<<D1>>)}

SearchChars == {"a", "A", "%", "_", "\\"}

Queries == SeqsUpTo(SearchChars, MaxQueryLen)

\* the inputs of SpecTable: a task with double-width characters and a line
\* break in its texts, and one with texts wider than the headers
W1 == Obj(Str(<<"w">>), Str(<<"U+3042", "U+3042", "a">>), Str(<<"x", "\n", "y">>),
          UNDEF, UNDEF)
L1 == Obj(Str(<<"l", "o", "n", "g", "-", "c", "i", "d", "9">>), Str(<<"e", "U+0301">>),
          UNDEF, Str(sDone), Str(<<"a", "\t", "b", "c", "d", "e", "f", "g", "h">>))

TableJsons == {Arr(<<A1>>), Arr(<<A2>>), Arr(<<W1>>), Arr(<<L1>>)}

TableCategories == {"c1", "category3"}

\* the inputs of SpecTruncate: strings of a letter, a double-width letter and
\* a combining mark; ellipses of width 3, 1, 2, 4 and 0
WidthChars == {"a", "U+3042", "U+0301"}

WidthStrings == SeqsUpTo(WidthChars, MaxStrLen)

Ellipses ==
  {<<".", ".", ".">>, <<"U+2026">>, <<"U+3002">>, <<"U+3002", "U+3002">>, <<>>}

\* the arguments of a call of truncateString
Call(str, maxWidth, ellipsis) ==
  [t |-> "call", str |-> str, maxWidth |-> maxWidth, ellipsis |-> ellipsis]

\* the inputs of SpecPad: fills of width 1, 2 and 0, of one character, of
\* two and of none
Fills ==
  {<<" ">>, <<"U+3042">>, <<"a", "b">>, <<"a", "U+0301">>, <<"U+0301">>, <<>>}

\* the arguments of a call of padEnd
PadCall(str, targetWidth, fillChar) ==
  [t |-> "call", str |-> str, targetWidth |-> targetWidth, fillChar |-> fillChar]

\* the inputs of SpecFail: batches of one, two and three items
FailJsons ==
  {Arr(<<A1>>), Arr(<<A2, A3>>), Arr(<<A2, B1>>), Arr(<<B1, A2, A1>>)}

(* ------------------- status (the command) ------------------------------- *)

\* (the \E over a set of one element names a value that is computed once)
status ==
  /\ \E results \in Orderings(groupBy(tasks)) :
       \E summaries \in {summarise(<<>>, results)} :
         \E logs \in {statusLogs(summaries)} :
           last' = Result("status", "", NONE, "none", Summary(summaries, logs), "", 1)
  /\ UNCHANGED <<tasks, seq, now>>

(* ------------------- src/index.ts (main) ------------------------------ *)

\* the end of a process: the command it ran, its exit code, whether getDb
\* opened the connection and whether dbConnection.sqlite.close() was called
Exit(command, code, opened, closed) ==
  [t |-> "exit", command |-> command, code |-> code,
   opened |-> opened, closed |-> closed]

\* no process is running: the next step starts one
Idle == last.op \in {"init", "exit"}

\* main with no argument: showHelp and process.exit(0) before getDb
showHelp ==
  /\ Idle
  /\ last' = Result("exit", "", NONE, "none", Exit("help", 0, FALSE, FALSE), "", 0)
  /\ UNCHANGED <<tasks, seq, now>>

\* getDb when the database file does not exist: process.exit(1)
getDb_notFound ==
  /\ Idle
  /\ last' = Result("exit", "", NONE, "NoDatabase", Exit("getDb", 1, FALSE, FALSE), "", 0)
  /\ UNCHANGED <<tasks, seq, now>>

\* the commands of the switch
Commands == {"add", "get", "search", "list", "todo", "done", "wip", "remove", "show"}

\* a case of the switch called with the wrong number of parameters, or the
\* default case: the message, then process.exit(1) inside the try block
usage(command) ==
  /\ Idle
  /\ last' = Result(command, "", NONE,
                    IF command \in Commands THEN "Usage" ELSE "UnknownCommand",
                    NONE, "", 0)
  /\ UNCHANGED <<tasks, seq, now>>

exit_zero ==
  /\ ~Idle
  /\ last' = Result("exit", last.category, NONE, last.err,
                    IF last.err = "none" THEN Exit(last.op, 0, TRUE, TRUE)
                    ELSE Exit(last.op, 0, TRUE, FALSE), "", last.stmts)
  /\ UNCHANGED <<tasks, seq, now>>

\* the way out of main after the switch. A command that returned: the finally
\* block closes the connection, main returns and the process ends with 0.
\* A command that threw: the catch block calls process.exit(1). A usage
\* error or an unknown command: process.exit(1) was called in the try block.
\* process.exit ends the process where it is called: the finally block of
\* the try statement around it does not run.
exit ==
  /\ ~Idle
  /\ last' = Result("exit", last.category, NONE, last.err,
                    IF last.err = "none" THEN Exit(last.op, 0, TRUE, TRUE)
                    ELSE Exit(last.op, 1, TRUE, FALSE), "", last.stmts)
  /\ UNCHANGED <<tasks, seq, now>>

\* the inputs of SpecCli
CliJsons == {[t |-> "malformed"], Arr(<<A1>>), Arr(<<A2, BadStatus>>), Arr(<<A2, A1>>)}

CliIds == {<<"1">>, <<"0">>}

CliCommands == {"add", "show", "status"}

(* ------------------- specifications ------------------------------------ *)

Init ==
  /\ tasks = <<>>
  /\ seq = 0
  /\ now = 0
  /\ last = Result("init", "", NONE, "none", NONE, "", 0)

\* add, done, wip and remove on the task "a" of two categories
Next ==
  \/ \E c \in Categories, j \in Jsons : add(c, j)
  \/ \E c \in Categories, id \in Ids, k \in Comments : done(c, id, k)
  \/ \E c \in Categories, id \in Ids, k \in Comments : wip(c, id, k)
  \/ \E c \in Categories, id \in Ids : remove(c, id)

Spec == Init /\ [][Next]_vars

\* add, remove and get on tasks whose customIds are "", a letter or digits
NextGet ==
  \/ \E c \in Categories, j \in GetJsons : add(c, j)
  \/ \E c \in Categories, id \in Ids : remove(c, id)
  \/ \E c \in Categories, id \in GetIds : get(c, id)

SpecGet == Init /\ [][NextGet]_vars

\* the commands of one category with the clock running between them
NextClock ==
  \/ \E j \in ClockJsons : add("c1", j)
  \/ \E id \in ClockIds, k \in Comments : done("c1", id, k)
  \/ \E id \in ClockIds, k \in Comments : wip("c1", id, k)
  \/ \E id \in ClockIds : remove("c1", id)
  \/ Tick

SpecClock == Init /\ [][NextClock]_vars

\* done, wip and remove on one stored task, called with the id string that
\* the initial state draws
InitIds ==
  /\ tasks = upsertAll([tasks |-> <<>>, seq |-> 0], "c1", <<A1>>, 0).tasks
  /\ seq = 1
  /\ now = 0
  /\ \E id \in IdStrings : last = Result("init", "", Str(id), "none", NONE, "", 0)

NextIds ==
  \/ done("c1", last.arg.v, UNDEF)
  \/ wip("c1", last.arg.v, UNDEF)
  \/ remove("c1", last.arg.v)

SpecIds == InitIds /\ [][NextIds]_vars

\* every command that takes a category, on the task "a" of two categories
NextFrame ==
  \/ \E c \in Categories, j \in FrameJsons : add(c, j)
  \/ \E c \in Categories, id \in FrameIds, k \in Comments : done(c, id, k)
  \/ \E c \in Categories, id \in FrameIds, k \in Comments : wip(c, id, k)
  \/ \E c \in Categories, id \in FrameIds : remove(c, id)
  \/ \E c \in Categories, id \in FrameKeys : get(c, id)
  \/ \E c \in Categories : list(c)
  \/ \E c \in Categories : todo(c)
  \/ \E c \in Categories, q \in FrameQueries : search(c, q)
  \/ \E c \in Categories : show(c)

SpecFrame == Init /\ [][NextFrame]_vars

\* add and search, with every query up to a length
NextSearch ==
  \/ \E c \in Categories, j \in SearchJsons : add(c, j)
  \/ \E c \in Categories, q \in Queries : search(c, q)

SpecSearch == Init /\ [][NextSearch]_vars

\* add, show and status on two categories, one with a name wider than the
\* header of its column
NextTable ==
  \/ \E c \in TableCategories, j \in TableJsons : add(c, j)
  \/ \E c \in TableCategories : show(c)
  \/ status

SpecTable == Init /\ [][NextTable]_vars

\* truncateString applied to the arguments that the initial state draws
InitTruncate ==
  /\ tasks = <<>>
  /\ seq = 0
  /\ now = 0
  /\ \E str \in WidthStrings, maxWidth \in 0..MaxWidth, ellipsis \in Ellipses :
       last = Result("init", "", Call(str, maxWidth, ellipsis), "none", NONE, "", 0)

truncate ==
  /\ last' = Result("truncateString", "", last.arg, "none",
                    Str(truncateString(last.arg.str, last.arg.maxWidth,
                                       last.arg.ellipsis)), "", 0)
  /\ UNCHANGED <<tasks, seq, now>>

NextTruncate == truncate

SpecTruncate == InitTruncate /\ [][NextTruncate]_vars

\* padEnd applied to the arguments that the initial state draws
InitPad ==
  /\ tasks = <<>>
  /\ seq = 0
  /\ now = 0
  /\ \E str \in WidthStrings, targetWidth \in 0..MaxWidth, fillChar \in Fills :
       last = Result("init", "", PadCall(str, targetWidth, fillChar), "none", NONE, "", 0)

pad ==
  /\ \E r \in {padEnd(last.arg.str, last.arg.targetWidth, last.arg.fillChar)} :
       last' = IF r.t = "throw"
                 THEN Result("padEnd", "", last.arg, r.err, NONE, "", 0)
                 ELSE Result("padEnd", "", last.arg, "none", r, "", 0)
  /\ UNCHANGED <<tasks, seq, now>>

NextPad == pad

SpecPad == InitPad /\ [][NextPad]_vars

\* add and remove on a store that may fail on any statement of an add
NextFail ==
  \/ \E c \in Categories, j \in FailJsons : add(c, j)
  \/ \E c \in Categories, j \in FailJsons :
       \E k \in 1..Len(j.items) : addStoreError(c, j, k)
  \/ \E c \in Categories, id \in Ids : remove(c, id)

SpecFail == Init /\ [][NextFail]_vars

\* one process after another: each starts when none is running, runs one
\* command of the switch (or fails before it) and ends
NextCli ==
  \/ showHelp
  \/ getDb_notFound
  \/ \E command \in CliCommands : usage(command)
  \/ \E j \in CliJsons : Idle /\ add("c1", j)
  \/ \E j \in {x \in CliJsons : x.t = "arr"} :
       \E k \in 1..Len(j.items) : Idle /\ addStoreError("c1", j, k)
  \/ \E id \in CliIds : Idle /\ get("c1", id)
  \/ Idle /\ list("c1")
  \/ \E id \in CliIds : Idle /\ done("c1", id, UNDEF)
  \/ \E id \in CliIds : Idle /\ wip("c1", id, Str(<<"k">>))
  \/ \E id \in CliIds : Idle /\ remove("c1", id)
  \/ exit

SpecCli == Init /\ [][NextCli]_vars

(* ------------------- properties ---------------------------------------- *)

\* the step is a run of add with the arguments recorded in last'
AddStep == last'.op = "add" /\ add(last'.category, last'.arg)

\* the step is a run of add that raised no error
AddOk == AddStep /\ last'.err = "none"

UniquePairs(rows) ==
  \A i, j \in 1..Len(rows) :
    (rows[i].customId = rows[j].customId /\ rows[i].category = rows[j].category)
      => i = j

\* the (customId, category) pairs of a batch that the store does not hold yet
NewPairs(rows, category, items) ==
  {items[i].customId.v : i \in 1..Len(items)} \
    {rows[i].customId : i \in {n \in 1..Len(rows) : rows[n].category = category}}

\* C1: the store never holds two rows with the same (customId, category),
\* and an add grows the row count only by the pairs that did not exist
C1_UniquePairs ==
  [][/\ UniquePairs(tasks')
     /\ AddOk => Len(tasks') = Len(tasks)
                   + Cardinality(NewPairs(tasks, last'.category, last'.arg.items))]_vars

\* an add of two items to a category that held the pair already: one row
C1_Witness ==
  /\ last.op = "add" /\ last.err = "none"
  /\ last.arg = Arr(<<A2, A1>>)
  /\ Len(tasks) = 2
  /\ \E i, j \in 1..2 : tasks[i].customId = <<"a">> /\ tasks[j].customId = <<"a">>
                         /\ tasks[i].category # tasks[j].category

\* the value a row holds for a field that an item gives, absent when omitted
Given(v) == IF v.t = "str" THEN Str(v.v) ELSE NULL

InBatch(items, customId) == \E i \in 1..Len(items) : items[i].customId.v = customId

\* the last item of the batch with the customId
LastItem(items, customId) ==
  items[CHOOSE i \in 1..Len(items) :
          /\ items[i].customId.v = customId
          /\ \A j \in (i + 1)..Len(items) : items[j].customId.v # customId]

\* C2: a re-add overwrites name, description, status and comment of the
\* existing row with the item's values, an omitted one becoming absent (wip)
C2_ReAddOverwritesAll ==
  [][AddOk =>
       \A i \in 1..Len(tasks) :
         (tasks[i].category = last'.category /\ InBatch(last'.arg.items, tasks[i].customId))
           => LET it == LastItem(last'.arg.items, tasks[i].customId)
              IN /\ tasks'[i].name = Given(it.name)
                 /\ tasks'[i].description = Given(it.description)
                 /\ tasks'[i].comment = Given(it.comment)
                 /\ tasks'[i].status = IF it.status.t = "str" THEN it.status.v ELSE sWip]_vars

\* one or more ASCII digits, not all of them 0
PositiveDecimal(s) ==
  /\ Len(s) >= 1
  /\ \A i \in 1..Len(s) : s[i] \in Digits
  /\ \E i \in 1..Len(s) : s[i] # "0"

RECURSIVE DecimalValue(_)
DecimalValue(s) ==
  IF s = <<>> THEN 0
  ELSE 10 * DecimalValue(SubSeq(s, 1, Len(s) - 1)) + DigitVal(s[Len(s)])

C5_GetNumericIffPositive ==
  last.op = "get" =>
    /\ last.err = "NotFound" => (last.style = "id" <=> PositiveDecimal(last.arg.v))
    /\ last.err = "none" =>
         \/ last.out.customId = last.arg.v
         \/ PositiveDecimal(last.arg.v) /\ last.out.id = DecimalValue(last.arg.v)

\* C6: no stored task has the empty string as its comment
C6_NoEmptyComment ==
  \A i \in 1..Len(tasks) : tasks[i].comment # Str(<<>>)

HasEmptyCustomId(json) ==
  /\ json.t = "arr"
  /\ \E i \in 1..Len(json.items) :
       json.items[i].t = "obj" /\ json.items[i].customId = Str(<<>>)

AllValid(json) ==
  /\ json.t = "arr"
  /\ \A i \in 1..Len(json.items) : json.items[i] \in ValidItems

\* C7 as stated: an add with an item whose customId is the empty string
\* fails and changes nothing
C7_EmptyCustomIdRejected ==
  [][(AddStep /\ HasEmptyCustomId(last'.arg))
       => (last'.err # "none" /\ tasks' = tasks)]_vars

\* C7 as amended: an add of valid items, one with the empty string as its
\* customId, succeeds and the category holds a row with customId ""
C7_EmptyCustomIdStored ==
  [][(AddStep /\ AllValid(last'.arg) /\ HasEmptyCustomId(last'.arg))
       => /\ last'.err = "none"
          /\ \E i \in InCategory(tasks', last'.category) : tasks'[i].customId = <<>>]_vars

C7_Witness ==
  /\ last.op = "add" /\ last.arg = Arr(<<B2, E0>>) /\ last.err = "none"
  /\ \E i \in InCategory(tasks, last.category) : tasks[i].customId = <<>>

\* C8: an add whose input has an invalid item, is no array or is no JSON
\* fails and leaves the store as it was
C8_InvalidBatchChangesNothing ==
  [][(AddStep /\ ~AllValid(last'.arg))
       => (last'.err # "none" /\ tasks' = tasks /\ seq' = seq)]_vars

\* the batch [valid, invalid] was rejected and its first item is not stored
C8_Witness ==
  /\ last.op = "add" /\ last.arg = Arr(<<A1, NoCustomId>>) /\ last.err = "ZodError"
  /\ tasks = <<>>

Occurrences(items, customId) ==
  Cardinality({i \in 1..Len(items) : items[i].customId.v = customId})

\* C9: after an add in which a customId occurs more than once the category
\* holds one row for it, with every field its last occurrence gives
C9_LastOccurrenceWins ==
  [][AddOk =>
       \A k \in {last'.arg.items[i].customId.v : i \in 1..Len(last'.arg.items)} :
         Occurrences(last'.arg.items, k) > 1 =>
           LET it == LastItem(last'.arg.items, k)
               rows == {i \in InCategory(tasks', last'.category) : tasks'[i].customId = k}
           IN /\ Cardinality(rows) = 1
              /\ \A i \in rows :
                   /\ it.name.t = "str" => tasks'[i].name = Str(it.name.v)
                   /\ it.description.t = "str" => tasks'[i].description = Str(it.description.v)
                   /\ it.status.t = "str" => tasks'[i].status = it.status.v
                   /\ it.comment.t = "str" => tasks'[i].comment = Str(it.comment.v)]_vars

C9_Witness ==
  /\ last.op = "add" /\ last.arg = Arr(<<A2, A3>>) /\ last.err = "none"
  /\ Len(tasks) = 1
  /\ tasks[1].comment = Str(<<>>) /\ tasks[1].status = sWip /\ tasks[1].name = Str(<<"n">>)

\* a row without its updatedAt
Stable(row) ==
  [id |-> row.id, customId |-> row.customId, category |-> row.category,
   name |-> row.name, description |-> row.description, status |-> row.status,
   comment |-> row.comment, createdAt |-> row.createdAt]

\* C10: an add that repeats the add before it, same category and items,
\* leaves the number of rows and every field but updatedAt of every row
C10_SecondAddChangesOnlyUpdatedAt ==
  [][(AddOk /\ last.op = "add" /\ last.err = "none"
        /\ last'.category = last.category /\ last'.arg = last.arg)
       => /\ Len(tasks') = Len(tasks)
          /\ \A i \in 1..Len(tasks) : Stable(tasks'[i]) = Stable(tasks[i])]_vars

\* the row of a was added at 0 and added again, by the same add, at 1
C10_Witness ==
  /\ last.op = "add" /\ last.arg = Arr(<<A2, A3>>) /\ last.err = "none"
  /\ seq = 1 /\ Len(tasks) = 1
  /\ tasks[1].createdAt = 0 /\ tasks[1].updatedAt = 1
  /\ tasks[1].name = Str(<<"n">>) /\ tasks[1].comment = Str(<<>>)

\* the ids of the rows that the command recorded in r returned or printed;
\* in a table of show it is the number at the start of a data row
OutIds(r) ==
  CASE r.op = "get" -> IF r.err = "none" THEN {r.out.id} ELSE {}
    [] r.op \in {"list", "todo", "search"} ->
         {r.out.rows[i].id : i \in 1..Len(r.out.rows)}
    [] r.op = "show" ->
         {digitPrefix(r.out.logs[k], 0, 0).value : k \in 3..Len(r.out.logs)}
    [] OTHER -> {}

\* C11: when two categories hold a task with the same customId, a command
\* addressed at one of them neither returns nor prints the row of the other,
\* and that row is in the store after the command exactly as before it
C11_OtherCategoryUntouched ==
  [][\A i \in 1..Len(tasks) :
       (/\ tasks[i].category # last'.category
        /\ \E j \in InCategory(tasks, last'.category) :
             tasks[j].customId = tasks[i].customId)
         => /\ \E j \in 1..Len(tasks') : tasks'[j] = tasks[i]
            /\ tasks[i].id \notin OutIds(last')]_vars

\* done on the task a of c1 while c2 holds a task a that is still wip
C11_Witness ==
  /\ last.op = "done" /\ last.category = "c1" /\ last.err = "none"
  /\ \E i, j \in 1..Len(tasks) :
       /\ tasks[i].category = "c1" /\ tasks[i].customId = <<"a">>
       /\ tasks[i].status = sDone /\ tasks[i].comment = NULL
       /\ tasks[j].category = "c2" /\ tasks[j].customId = <<"a">>
       /\ tasks[j].status = sWip /\ tasks[j].comment = Str(<<"k">>)

\* the step is a run of done, wip or remove with a well-formed id
IdStep ==
  /\ last'.op \in {"done", "wip", "remove"}
  /\ PositiveDecimal(last'.arg.v)

\* the rows that have the id and the category the command was called with
Addressed(rows, r) ==
  {i \in 1..Len(rows) :
     rows[i].id = DecimalValue(r.arg.v) /\ rows[i].category = r.category}

\* C12: done, wip and remove with a well-formed id fail NotFound exactly when
\* no row has both the id and the category; otherwise they succeed on one
\* row; a remove repeated after it succeeded fails NotFound
C12_NotFoundIffNoRow ==
  [][/\ IdStep =>
          LET hit == Addressed(tasks, last')
          IN /\ (last'.err = "NotFound") <=> (hit = {})
             /\ hit # {} =>
                  /\ last'.err = "none"
                  /\ last'.out = Count(1)
                  /\ Cardinality(hit) = 1
                  /\ IF last'.op = "remove"
                       THEN tasks' = deleteRows(tasks, hit, 1)
                       ELSE /\ Len(tasks') = Len(tasks)
                            /\ \A i \in 1..Len(tasks) : i \notin hit => tasks'[i] = tasks[i]
     /\ (/\ IdStep /\ last'.op = "remove"
         /\ last.op = "remove" /\ last.err = "none"
         /\ last'.category = last.category /\ last'.arg = last.arg)
          => last'.err = "NotFound"]_vars

\* done at c1 with the id of a task of c2 failed and the task is still wip
C12_Witness ==
  /\ last.op = "done" /\ last.category = "c1" /\ last.err = "NotFound"
  /\ \E i \in 1..Len(tasks) :
       /\ tasks[i].id = DecimalValue(last.arg.v)
       /\ tasks[i].category = "c2" /\ tasks[i].status = sWip

\* C13: a done, wip or remove that fails leaves the store as it was, and one
\* whose id is ill-formed fails before it sends a statement to the store
C13_FailureChangesNothing ==
  [][last'.op \in {"done", "wip", "remove"} =>
       /\ last'.err # "none" => (tasks' = tasks /\ seq' = seq)
       /\ ~PositiveDecimal(last'.arg.v) =>
            (last'.err = "InvalidTaskId" /\ last'.stmts = 0)]_vars

\* remove "1e1" was rejected and the task with id 1 is in the store
C13_Witness ==
  /\ last.op = "remove" /\ last.arg = Str(<<"1", "e", "1">>)
  /\ last.err = "InvalidTaskId" /\ last.stmts = 0
  /\ Len(tasks) = 1 /\ tasks[1].id = 1

\* the comment a row holds after done or wip was given the comment k
Supplied(k) == IF k.t = "str" /\ k.v # <<>> THEN Str(k.v) ELSE NULL

\* C14: a successful done (wip) leaves the addressed row with status done
\* (wip) and with the supplied comment, absent when none or "" was supplied
C14_StatusAndCommentSet ==
  [][\A k \in Comments :
       (/\ IdStep /\ last'.err = "none"
        /\ \/ last'.op = "done" /\ done(last'.category, last'.arg.v, k)
           \/ last'.op = "wip" /\ wip(last'.category, last'.arg.v, k))
         => \A i \in Addressed(tasks, last') :
              /\ tasks'[i].status = (IF last'.op = "done" THEN sDone ELSE sWip)
              /\ tasks'[i].comment = Supplied(k)]_vars

\* wip without a comment on a task that was added as done with comment "k"
C14_Witness ==
  /\ last.op = "wip" /\ last.err = "none"
  /\ \E i \in Addressed(tasks, last) :
       /\ tasks[i].name = Str(<<"n">>)
       /\ tasks[i].status = sWip /\ tasks[i].comment = NULL

\* text holds the characters of q in a row, letters in either case
Contains(text, q) ==
  \E k \in 0..(Len(text) - Len(q)) :
    \A i \in 1..Len(q) : toLower(text[k + i]) = toLower(q[i])

\* the rows of the category with q in customId, name or description
LiteralHits(rows, category, q) ==
  {rows[i] : i \in {n \in InCategory(rows, category) :
     \/ Contains(rows[n].customId, q)
     \/ rows[n].name.t = "str" /\ Contains(rows[n].name.v, q)
     \/ rows[n].description.t = "str" /\ Contains(rows[n].description.v, q)}}

Returned(r) == {r.out.rows[i] : i \in 1..Len(r.out.rows)}

\* C15: search returns exactly the rows of the category that hold the query
\* as literal text, letters in either case, in customId, name or description
C15_SearchIsLiteral ==
  last.op = "search" => Returned(last) = LiteralHits(tasks, last.category, last.arg.v)

HasBackslash(q) == \E i \in 1..Len(q) : q[i] = "\\"

\* C16: a query with a backslash in it is literal text like any other: the
\* rows returned are those that hold exactly its characters
C16_BackslashIsLiteral ==
  (last.op = "search" /\ HasBackslash(last.arg.v))
    => Returned(last) = LiteralHits(tasks, last.category, last.arg.v)

\* what search does keep: a query without a backslash is literal text
NoBackslashLiteral ==
  (last.op = "search" /\ ~HasBackslash(last.arg.v))
    => Returned(last) = LiteralHits(tasks, last.category, last.arg.v)

\* the texts between the separators " | " of a printed line; cell is the
\* text read so far
RECURSIVE splitCells(_, _)
splitCells(line, cell) ==
  IF line = <<>> THEN <<cell>>
  ELSE IF Len(line) >= 3 /\ SubSeq(line, 1, 3) = <<" ", "|", " ">>
    THEN <<cell>> \o splitCells(SubSeq(line, 4, Len(line)), <<>>)
  ELSE splitCells(Tail(line), Append(cell, Head(line)))

Categorised(rows) == {rows[i].category : i \in 1..Len(rows)}

WithStatus(rows, category, st) ==
  {i \in InCategory(rows, category) : rows[i].status = st}

\* C17: status has one entry per category of the store, with the number of
\* its wip rows and of its done rows, which add up to its rows, and prints
\* them; on the empty store it has no entry and prints one line
C17_StatusCounts ==
  last.op = "status" =>
    LET ss == last.out.summaries IN
    /\ {ss[i].category : i \in 1..Len(ss)} = Categorised(tasks)
    /\ Len(ss) = Cardinality(Categorised(tasks))
    /\ \A i \in 1..Len(ss) :
         /\ ss[i].wipCount = Cardinality(WithStatus(tasks, ss[i].category, sWip))
         /\ ss[i].doneCount = Cardinality(WithStatus(tasks, ss[i].category, sDone))
         /\ ss[i].wipCount + ss[i].doneCount
              = Cardinality(InCategory(tasks, ss[i].category))
         /\ LET cells == splitCells(last.out.lines[i + 2], <<>>)
            IN /\ Len(cells) = 3
               /\ trimEnd(cells[1]) = chars(ss[i].category)
               /\ trimEnd(cells[2]) = toString(ss[i].wipCount)
               /\ trimEnd(cells[3]) = toString(ss[i].doneCount)
    /\ tasks # <<>> => Len(last.out.lines) = Len(ss) + 2
    /\ tasks = <<>> => (ss = <<>> /\ last.out.lines = <<noTasksAnywhere>>)

\* two categories, one of them with a done task and no wip task: WIP is 0
C17_Witness ==
  /\ last.op = "status"
  /\ Len(last.out.summaries) = 2
  /\ \E i \in 1..2 : /\ last.out.summaries[i].wipCount = 0
                     /\ last.out.summaries[i].doneCount = 1
                     /\ splitCells(last.out.lines[i + 2], <<>>)[2] = <<"0", " ", " ">>

\* C18: show prints N + 2 lines of text for a category with N > 0 tasks,
\* whatever their texts hold, and 1 line for a category with none
C18_ShowLineCount ==
  last.op = "show" =>
    LET N == Cardinality(InCategory(tasks, last.category))
    IN Len(last.out.lines) = IF N = 0 THEN 1 ELSE N + 2

\* text followed by spaces up to the visual width w
Padded(text, w) == text \o [i \in 1..(w - stringWidth(text)) |-> " "]

\* the cells joined by sep
RECURSIVE Joined(_, _)
Joined(cells, sep) ==
  IF Len(cells) = 1 THEN Head(cells) ELSE Head(cells) \o sep \o Joined(Tail(cells), sep)

\* the greatest of min and the visual widths of column k of the values
ColumnWidth(min, values, k) ==
  LET ws == {min} \cup {stringWidth(values[r][k]) : r \in 1..Len(values)}
  IN CHOOSE m \in ws : \A w \in ws : w <= m

RECURSIVE Sum(_)
Sum(ns) == IF ns = <<>> THEN 0 ELSE Head(ns) + Sum(Tail(ns))

\* The table logs has the header, the values and the minimum widths mins:
\* no minimum is below its label; every line is its cells, each padded to
\* the width of its column, joined by the separator; and the separator
\* after column k starts at the same visual offset in every line.
Aligned(logs, header, values, mins) ==
  LET n == Len(header)
      texts == <<header>> \o values
      at(r) == IF r = 1 THEN 1 ELSE r + 1
  IN \A cols \in {[k \in 1..n |-> ColumnWidth(mins[k], values, k)]} :
     /\ Len(logs) = Len(values) + 2
     /\ \A k \in 1..n : mins[k] >= stringWidth(header[k])
     /\ \A r \in 1..Len(texts) :
          \A cells \in {[k \in 1..n |-> Padded(texts[r][k], cols[k])]} :
            /\ \A k \in 1..n : stringWidth(cells[k]) = cols[k]
            /\ logs[at(r)] = Joined(cells, <<" ", "|", " ">>)
            /\ \A k \in 1..(n - 1) :
                 LET len == Sum([j \in 1..k |-> Len(cells[j])]) + 3 * (k - 1)
                 IN /\ SubSeq(logs[at(r)], len + 1, len + 3) = <<" ", "|", " ">>
                    /\ stringWidth(SubSeq(logs[at(r)], 1, len))
                         = Sum([j \in 1..k |-> cols[j]]) + 3 * (k - 1)
     /\ logs[2] = Joined([k \in 1..n |-> [i \in 1..cols[k] |-> "-"]], <<"-", "+", "-">>)

\* C19: the tables of show and status are aligned by visual width
C19_TablesAligned ==
  /\ (last.op = "show" /\ InCategory(tasks, last.category) # {})
       => LET rows == selectRows(tasks, InCategory(tasks, last.category))
          IN Aligned(last.out.logs, showHeader,
                     [r \in 1..Len(rows) |-> showCells(rows[r])],
                     <<2, 8, 4, 11, 6, 7>>)
  /\ (last.op = "status" /\ tasks # <<>>)
       => Aligned(last.out.logs, statusHeader,
                  [r \in 1..Len(last.out.summaries) |->
                     statusCells(last.out.summaries[r])],
                  <<8, 3, 4>>)

\* show printed a task whose name has double-width characters next to a
\* task without a name
C19_Witness ==
  /\ last.op = "show" /\ Len(last.out.logs) = 4
  /\ \E i, j \in InCategory(tasks, last.category) :
       /\ tasks[i].name = Str(<<"U+3042", "U+3042", "a">>)
       /\ tasks[j].name = NULL

\* C20: what truncateString returns is never wider than maxWidth
C20_TruncateFits ==
  last.op = "truncateString" => stringWidth(last.out.v) <= last.arg.maxWidth

\* what truncateString does keep: with an ellipsis that has no double-width
\* character the result is never wider than maxWidth
TruncateFitsNarrowEllipsis ==
  (last.op = "truncateString"
     /\ \A i \in 1..Len(last.arg.ellipsis) : charWidth(last.arg.ellipsis[i]) <= 1)
    => stringWidth(last.out.v) <= last.arg.maxWidth

\* What padEnd has to return for str, targetWidth and fillChar; the number
\* of fills is said only for a fill of width above 0, for which the
\* quotient exists.
PadSpec(r, str, targetWidth, fillChar) ==
  /\ stringWidth(str) >= targetWidth => r = str
  /\ (stringWidth(str) < targetWidth /\ stringWidth(fillChar) > 0) =>
       /\ r = str \o repeat(fillChar,
                            (targetWidth - stringWidth(str)) \div stringWidth(fillChar))
       /\ stringWidth(fillChar) = 1 => stringWidth(r) = targetWidth
  /\ Len(r) >= Len(str) /\ SubSeq(r, 1, Len(str)) = str
  /\ stringWidth(r) <= IF stringWidth(str) >= targetWidth
                         THEN stringWidth(str) ELSE targetWidth

\* C21: for every fill padEnd returns a string: str itself when it is wide
\* enough, else str and floor((targetWidth - Width(str)) / Width(fill)) fills;
\* str is a prefix of it and it is never wider than max(Width(str), targetWidth)
C21_PadEndReturns ==
  last.op = "padEnd" =>
    /\ last.err = "none"
    /\ PadSpec(last.out.v, last.arg.str, last.arg.targetWidth, last.arg.fillChar)

\* what padEnd does keep: with a fill of width above 0, or when str is wide
\* enough, it returns what C21 says
PadEndNonZeroFill ==
  (last.op = "padEnd"
     /\ \/ stringWidth(last.arg.fillChar) > 0
        \/ stringWidth(last.arg.str) >= last.arg.targetWidth)
    => /\ last.err = "none"
       /\ PadSpec(last.out.v, last.arg.str, last.arg.targetWidth, last.arg.fillChar)

\* the rows of the category with the customId
Keyed(rows, category, customId) ==
  {i \in InCategory(rows, category) : rows[i].customId = customId}

\* C30: when the store fails on item k of an add, the error reaches the
\* caller and nothing is printed; the items before k are in the store as an
\* add of them alone leaves them; no item from k on is applied
C30_FailureKeepsPrefix ==
  [][(last'.op = "add" /\ last'.err = "StoreError") =>
       LET items == last'.arg.items
           k == last'.stmts
           before == SubSeq(items, 1, k - 1)
           c == last'.category
       IN /\ last'.out = NONE
          /\ Len(tasks') = Len(tasks) + Cardinality(NewPairs(tasks, c, before))
          /\ \A i \in 1..Len(tasks) : tasks'[i].id = tasks[i].id
          /\ \A i \in 1..Len(tasks') :
               IF tasks'[i].category = c /\ InBatch(before, tasks'[i].customId)
                 THEN LET it == LastItem(before, tasks'[i].customId)
                      IN /\ tasks'[i].status
                              = (IF it.status.t = "str" THEN it.status.v ELSE sWip)
                         /\ it.name.t = "str" => tasks'[i].name = Str(it.name.v)
                         /\ it.comment.t = "str" => tasks'[i].comment = Str(it.comment.v)
                 ELSE i <= Len(tasks) /\ tasks'[i] = tasks[i]]_vars

\* the store failed on the third item of [1, a (done), a]: the tasks 1 and a
\* are stored and a is still done
C30_Witness ==
  /\ last.op = "add" /\ last.err = "StoreError" /\ last.stmts = 3
  /\ last.arg = Arr(<<B1, A2, A1>>)
  /\ Len(tasks) = 2
  /\ \E i \in Keyed(tasks, last.category, <<"a">>) :
       tasks[i].status = sDone /\ tasks[i].comment = Str(<<"k">>)

\* C27: done and wip called with the customId of a task of the category
\* succeed and set the status of that task
C27_ByCustomId ==
  [][(/\ last'.op \in {"done", "wip"}
      /\ Keyed(tasks, last'.category, last'.arg.v) # {}) =>
       /\ last'.err = "none"
       /\ \A i \in Keyed(tasks', last'.category, last'.arg.v) :
            tasks'[i].status = (IF last'.op = "done" THEN sDone ELSE sWip)]_vars

\* the rows of rows that have the customId and the category of row
SameKey(rows, row) == Keyed(rows, row.category, row.customId)

\* C24: in every step of add, done, wip and remove the ids of the rows after
\* it are positive and pairwise different, a row that was there before keeps
\* its id, and a row that was not gets an id above seq, which is never below
\* an id of the store and never decreases: above every id assigned so far
C24_IdsStableAndFresh ==
  [][/\ \A i \in 1..Len(tasks') : tasks'[i].id > 0 /\ tasks'[i].id <= seq'
     /\ \A i, j \in 1..Len(tasks') : tasks'[i].id = tasks'[j].id => i = j
     /\ seq' >= seq
     /\ \A j \in 1..Len(tasks') :
          IF SameKey(tasks, tasks'[j]) # {}
            THEN \A i \in SameKey(tasks, tasks'[j]) : tasks'[j].id = tasks[i].id
            ELSE tasks'[j].id > seq]_vars

\* task 1 was removed and a task added after it: the only row has the id 2
C24_Witness ==
  /\ last.op = "add" /\ last.err = "none"
  /\ Len(tasks) = 1 /\ tasks[1].id = 2

\* C25: createdAt of a row is the time of the add that created it, and a
\* step of done, wip or add leaves the createdAt of every row that was there
C25_CreatedAtKept ==
  [][last'.op \in {"done", "wip", "add"} =>
       \A j \in 1..Len(tasks') :
         IF SameKey(tasks, tasks'[j]) # {}
           THEN \A i \in SameKey(tasks, tasks'[j]) :
                  tasks'[j].createdAt = tasks[i].createdAt
           ELSE tasks'[j].createdAt = now]_vars

\* a task created at 0 is done at 1
C25_WitnessDone ==
  /\ last.op = "done" /\ last.err = "none" /\ now = 1
  /\ \E i \in 1..Len(tasks) :
       tasks[i].status = sDone /\ tasks[i].createdAt = 0 /\ tasks[i].updatedAt = 1

\* C26: a done or wip that succeeds leaves the clock's time in updatedAt of
\* the row it addressed, an add in updatedAt of every row its items name (a
\* step that keeps now is a step of a command: only Tick moves the clock); in
\* every step the updatedAt of a row that stays is not below what it was and
\* no row has an updatedAt below its createdAt
C26_UpdatedAtIsMutationTime ==
  [][/\ (now' = now /\ last'.op \in {"done", "wip"} /\ last'.err = "none") =>
          /\ Addressed(tasks', last') # {}
          /\ \A j \in Addressed(tasks', last') : tasks'[j].updatedAt = now
     /\ (now' = now /\ last'.op = "add" /\ last'.err = "none") =>
          \A j \in InCategory(tasks', last'.category) :
            InBatch(last'.arg.items, tasks'[j].customId) => tasks'[j].updatedAt = now
     /\ \A j \in 1..Len(tasks') :
          /\ tasks'[j].updatedAt >= tasks'[j].createdAt
          /\ \A i \in SameKey(tasks, tasks'[j]) :
               tasks'[j].updatedAt >= tasks[i].updatedAt]_vars

\* a task created at 0 is put back to wip at 1
C26_WitnessWip ==
  /\ last.op = "wip" /\ last.err = "none" /\ now = 1
  /\ \E i \in Addressed(tasks, last) :
       tasks[i].status = sWip /\ tasks[i].createdAt = 0 /\ tasks[i].updatedAt = 1

\* a row without the three fields that done and wip write
Identity(row) ==
  [id |-> row.id, customId |-> row.customId, category |-> row.category,
   name |-> row.name, description |-> row.description, createdAt |-> row.createdAt]

\* C28: a done or wip that succeeds addresses one row, leaves its id,
\* customId, category, name and description and leaves every other row as
\* it was; a remove that succeeds leaves the store without the one row it
\* addressed and with every other row as it was, in the same order
C28_OnlyAddressedRowChanges ==
  [][/\ (last'.op \in {"done", "wip"} /\ last'.err = "none") =>
          /\ Cardinality(Addressed(tasks, last')) = 1
          /\ Len(tasks') = Len(tasks)
          /\ \A i \in 1..Len(tasks) :
               IF i \in Addressed(tasks, last')
                 THEN Identity(tasks'[i]) = Identity(tasks[i])
                 ELSE tasks'[i] = tasks[i]
     /\ (last'.op = "remove" /\ last'.err = "none") =>
          /\ Cardinality(Addressed(tasks, last')) = 1
          /\ \A k \in Addressed(tasks, last') :
               tasks' = SubSeq(tasks, 1, k - 1) \o SubSeq(tasks, k + 1, Len(tasks))]_vars

\* one of two tasks was removed
C28_WitnessRemove ==
  /\ last.op = "remove" /\ last.err = "none"
  /\ seq = 2 /\ Len(tasks) = 1

\* one of two tasks is done with a comment, the other is wip
C28_WitnessDone ==
  /\ last.op = "done" /\ last.err = "none" /\ Len(tasks) = 2
  /\ \E i \in Addressed(tasks, last) : tasks[i].status = sDone
  /\ \E i \in 1..Len(tasks) : i \notin Addressed(tasks, last) /\ tasks[i].status = sWip

\* an add that succeeds on a done row with an item that gives no status
ReAddOfDone(i) ==
  /\ last'.op = "add" /\ last'.err = "none"
  /\ tasks[i].category = last'.category
  /\ tasks[i].status = sDone
  /\ InBatch(last'.arg.items, tasks[i].customId)
  /\ LastItem(last'.arg.items, tasks[i].customId).status.t # "str"

\* C29: an add whose item for a done task gives no status leaves the task
\* wip, on the same row
C29_ReAddResetsDone ==
  [][\A i \in 1..Len(tasks) :
       ReAddOfDone(i) =>
         /\ SameKey(tasks', tasks[i]) # {}
         /\ \A j \in SameKey(tasks', tasks[i]) :
              tasks'[j].id = tasks[i].id /\ tasks'[j].status = sWip]_vars

\* never an add with no status on a done row: violated, so the case of C29
\* is taken
C29_NeverReAddOfDone == [][\A i \in 1..Len(tasks) : ~ReAddOfDone(i)]_vars

\* the task added as {customId} alone, done with a comment and added again
\* the same way: wip, with the comment of done and still no name
C29_Witness ==
  /\ last.op = "add" /\ last.err = "none" /\ last.arg = Arr(<<A1>>)
  /\ Len(tasks) = 1 /\ tasks[1].category = last.category
  /\ tasks[1].customId = <<"a">> /\ tasks[1].status = sWip
  /\ tasks[1].comment = Str(<<"k">>) /\ tasks[1].name = NULL

\* C22: a process that opened the connection has closed it when it ends
C22_ClosedOnEveryExit ==
  (last.op = "exit" /\ last.out.opened) => last.out.closed

\* a process whose command returned has closed the connection
ClosedAfterSuccess ==
  (last.op = "exit" /\ last.out.opened /\ last.err = "none") => last.out.closed

\* C23: a process that ran a command ends with 0 when the command returned
\* and with another code when it threw, whatever it threw
C23_ExitCode ==
  [][(last'.op = "exit" /\ last'.out.opened) =>
       /\ last.err = "none" => last'.out.code = 0
       /\ last.err \in {"SyntaxError", "ZodError", "InvalidTaskId", "NotFound",
                        "StoreError", "Usage", "UnknownCommand"}
            => last'.out.code # 0
       /\ last.err # "none" => last'.out.code # 0]_vars

\* done ended with 1 for a task that is not there, and nothing is stored
C23_Witness ==
  /\ last.op = "exit" /\ last.out.command = "done" /\ last.err = "NotFound"
  /\ last.out.code = 1 /\ tasks = <<>>

====
